---- MODULE Spec2Model ----
(***************************************************************************)
(* Delivery orchestration engine of julee-action-service: webhook          *)
(* ingestion (usecases/webhooks.py), the queue processor                   *)
(* (usecases/process_queue.py) and the failed-event retry usecase          *)
(* (usecases/events/retry_events.py) over one shared event store and one   *)
(* shared result store.                                                    *)
(*                                                                         *)
(* Time is kept relative to the present, in seconds: an event carries how  *)
(* long ago it was processed (now - processed_at) and in how long its      *)
(* retry is due (next_retry_at - now, 0 once it is due), and the passing   *)
(* of time moves both.  Absent optional values (Python None) are written   *)
(* None, or -1 where the value is a time or a number.                      *)
(***************************************************************************)
EXTENDS Integers, Sequences, FiniteSets, TLC

\* ------------------------------------------------------------------ bounds
\* number of webhook deliveries that may be accepted
MaxEvents == 2
\* number of deliveries accepted while the processors run
MaxQueued == 1
\* largest batch_size / limit handed to a usecase
MaxBatch == 2
\* largest retry count a backoff is computed for
MaxRetryCount == 10
\* largest finite max_retries a DeliveryPolicy is constructed with
MaxPolicyRetries == 2
\* longest rule list of a routing configuration
MaxRules == 2

\* events in the store when the repositories are driven directly
MaxStored == 1
\* events in the store a cleanup run goes through
MaxExpired == 1

\* --------------------------------------------------------- program constants
\* interfaces/requests.py: validate_data_size
MaxDataSize == 1000000
\* usecases/process_queue.py: _handle_failure, "max_retries = 3  # TODO"
QueueMaxRetries == 3
\* usecases/events/retry_events.py: execute(max_retries: int = 3, ...)
RetryDefaultMaxRetries == 3
\* usecases/events/retry_events.py: _calculate_backoff
BackoffBase == 30
BackoffCap == 3600
\* domain/delivery.py: DeliveryPolicy.retry_delay default, in seconds
DefaultRetryDelay == 30

None == "None"

\* -------------------------------------------------- delivery semantics/policies
AT_LEAST_ONCE ==
    [id |-> "at_least_once", requires_ack |-> TRUE, allows_retry |-> TRUE,
     preserves_order |-> FALSE, requires_dedup |-> FALSE]

STREAMING ==
    [id |-> "streaming", requires_ack |-> TRUE, allows_retry |-> FALSE,
     preserves_order |-> TRUE, requires_dedup |-> FALSE]

BATCH ==
    [id |-> "batch", requires_ack |-> TRUE, allows_retry |-> TRUE,
     preserves_order |-> TRUE, requires_dedup |-> TRUE]

EXACTLY_ONCE ==
    [id |-> "exactly_once", requires_ack |-> TRUE, allows_retry |-> TRUE,
     preserves_order |-> TRUE, requires_dedup |-> TRUE]

\* max_retries = -1 stands for None (unlimited); expiry = -1 for None (never)
Unlimited == -1
NoExpiry == -1

DEFAULT_HTTP_POLICY ==
    [semantic |-> AT_LEAST_ONCE, max_retries |-> 3, retry_delay |-> 30,
     expiry |-> NoExpiry]

DEFAULT_EMAIL_POLICY ==
    [semantic |-> AT_LEAST_ONCE, max_retries |-> 5, retry_delay |-> 300,
     expiry |-> NoExpiry]

DEFAULT_GITHUB_POLICY ==
    [semantic |-> EXACTLY_ONCE, max_retries |-> 3, retry_delay |-> 60,
     expiry |-> NoExpiry]

DEFAULT_KAFKA_POLICY ==
    [semantic |-> AT_LEAST_ONCE, max_retries |-> Unlimited, retry_delay |-> 10,
     expiry |-> NoExpiry]

\* the only policy DeliveryPolicy.__post_init__ accepts for a no-retry semantic
STREAMING_POLICY ==
    [semantic |-> STREAMING, max_retries |-> 0, retry_delay |-> DefaultRetryDelay,
     expiry |-> NoExpiry]

\* the built-in catalogue of the behaviour repository
CatalogueSemantics == {AT_LEAST_ONCE, STREAMING, BATCH, EXACTLY_ONCE}
CataloguePolicies ==
    {DEFAULT_HTTP_POLICY, DEFAULT_EMAIL_POLICY, DEFAULT_GITHUB_POLICY,
     DEFAULT_KAFKA_POLICY}

\* The action repository: action id -> delivery policy of the action.
ActionIds == {"smtp", "kafka", "stream"}
\* the actions deliveries are accepted for while the processors run
QueuedActions == {"smtp", "stream"}

ActionPolicy(a) ==
    CASE a = "smtp" -> DEFAULT_EMAIL_POLICY
      [] a = "kafka" -> DEFAULT_KAFKA_POLICY
      [] OTHER -> STREAMING_POLICY

\* an action id that resolves to no action
MissingAction == "gone"

\* action_repo.get_action
get_action(a) == IF a \in ActionIds THEN a ELSE None

\* ----------------------------------------------------------------- webhooks
\* The webhook repository holds one webhook.
WebhookIds == {"test"}
WebhookKey(w) == "secret"

get_webhook(w) == IF w \in WebhookIds THEN w ELSE None

\* inputs of the endpoint
InWebhookIds == {"test", "unknown"}
InKeys == {"secret", "wrong"}
InCorrelationIds == {None, "k1"}
\* how the body arrives: raw bytes, a multipart file, a JSON document, nothing
BodyForms == {"raw", "multipart", "json", "empty"}
\* length in bytes of the body as it arrives (for JSON: of json.dumps(payload))
BodySizes == {1, MaxDataSize, MaxDataSize + 1}

VARIABLES
    events,     \* event store: response id (1..Len) -> receipt + status entry
    results,    \* result store: event id -> stored result
    response,   \* the last call of the webhook endpoint and what it returned
    wpc, wbatch, wcur, wstats,   \* ProcessEventQueue.execute, per worker
    rpc, rbatch, rcur, rstats,   \* RetryFailedEvents.execute, per runner
    invoked,    \* per event: handler invocations made by the queue processor
    audit,      \* the delivery_attempt records written with record_event
                \* since the event last became claimable
    status_reply,   \* the last GET /status/{response_id} and what it returned
    call        \* the last call of a pure operation: its inputs and its outcome

vars == <<events, results, response, wpc, wbatch, wcur, wstats,
          rpc, rbatch, rcur, rstats, invoked, audit, status_reply, call>>

storeVars == <<events, results>>
workerVars == <<wpc, wbatch, wcur, wstats>>
retrierVars == <<rpc, rbatch, rcur, rstats>>
ghostVars == <<invoked, audit>>
queryVars == <<status_reply, call>>

Workers == {"w1", "w2"}
Retriers == {"r1"}

EventIds == 1..Len(events)

ZeroStats == [processed |-> 0, succeeded |-> 0, failed |-> 0, retry_scheduled |-> 0]
ZeroRetryStats == [retried |-> 0, succeeded |-> 0, failed |-> 0, max_attempts |-> 0]
NoCur == [id |-> 0, outcome |-> None, rc |-> 0]
NoResponse == [kind |-> "none", response_id |-> 0, webhook_id |-> None,
               key |-> None, correlation_id |-> None]
NoStatusReply == [kind |-> "none", response_id |-> 0, status |-> None,
                  result |-> None, error |-> None, correlation_id |-> None]
NoCall == [fn |-> "none"]

\* the stores and the processors after construction
InitEngine ==
    /\ audit = <<>>
    /\ events = <<>>
    /\ results = <<>>
    /\ response = NoResponse
    /\ wpc = [w \in Workers |-> "idle"]
    /\ wbatch = [w \in Workers |-> <<>>]
    /\ wcur = [w \in Workers |-> NoCur]
    /\ wstats = [w \in Workers |-> ZeroStats]
    /\ rpc = [r \in Retriers |-> "idle"]
    /\ rbatch = [r \in Retriers |-> <<>>]
    /\ rcur = [r \in Retriers |-> NoCur]
    /\ rstats = [r \in Retriers |-> ZeroRetryStats]
    /\ invoked = <<>>
    /\ status_reply = NoStatusReply

Init == InitEngine /\ call = NoCall

\* ------------------------------------------------------- webhook ingestion
\* WebhookRequest construction: the raw_data validator.  Only raw_data (raw
\* bytes or a multipart file) is validated; payload is not.
validate_data_size(form, size) ==
    IF form \in {"raw", "multipart"} THEN ~(size > 0 /\ size > MaxDataSize)
    ELSE TRUE

\* ReceiveWebhook.execute: payload normalised to raw bytes; its length
raw_body_len(form, size) ==
    CASE form \in {"raw", "multipart"} -> size
      [] form = "json" -> size
      [] OTHER -> 0

\* event_repo.record_received: a fresh response id, the receipt and a pending
\* status entry.  No lookup of an earlier receipt with the same correlation id.
record_received(webhook_id, body_len, content_type, correlation_id, action_id) ==
    /\ events' = Append(events,
          [webhook_id |-> webhook_id, body_len |-> body_len,
           content_type |-> content_type, correlation_id |-> correlation_id,
           action_id |-> action_id, status |-> "pending", retry_count |-> 0,
           processed_ago |-> -1, retry_due_in |-> -1,
           error |-> None])
    /\ invoked' = Append(invoked, 0)
    /\ UNCHANGED audit

\* the variant that numbers a receipt by the receipts before it
new_response_id_uncounted == Len(events)

\* the response id record_received returns: str(UUID(int=len(self.events) + 1)),
\* made from the store alone
new_response_id == Len(events) + 1

Reply(kind, response_id, webhook_id, key, correlation_id) ==
    [kind |-> kind, response_id |-> response_id, webhook_id |-> webhook_id,
     key |-> key, correlation_id |-> correlation_id]

\* (mutation of webhook_rejected: the key is not compared)
webhook_rejected_key_unchecked(webhook_id, key) == get_webhook(webhook_id) = None

\* ReceiveWebhook.execute: "if not webhook or webhook.key != key"
webhook_rejected(webhook_id, key) ==
    get_webhook(webhook_id) = None \/ WebhookKey(webhook_id) # key

\* POST /webhooks/{webhook_id}: build the WebhookRequest, then
\* ReceiveWebhook.execute(webhook_id, key, request).
ReceiveWebhook(webhook_id, key, form, size, correlation_id, action_id) ==
    /\ IF ~validate_data_size(form, size)
       THEN \* ValueError("Data exceeds 1MB size limit")
            /\ response' = Reply("invalid", 0, webhook_id, key, correlation_id)
            /\ UNCHANGED <<events, invoked, audit>>
       ELSE IF webhook_rejected(webhook_id, key)
       THEN \* return None
            /\ response' = Reply("rejected", 0, webhook_id, key, correlation_id)
            /\ UNCHANGED <<events, invoked, audit>>
       ELSE /\ Len(events) < MaxEvents
            /\ record_received(webhook_id, raw_body_len(form, size), form,
                               correlation_id, action_id)
            /\ response' = Reply("accepted", new_response_id, webhook_id, key,
                                 correlation_id)
    /\ UNCHANGED <<results, workerVars, retrierVars, queryVars>>

\* ------------------------------------------------------------ event store
Min(a, b) == IF a < b THEN a ELSE b

IdSeq == [i \in 1..Len(events) |-> i]

Take(s, n) == SubSeq(s, 1, Min(n, Len(s)))

\* event_repo.get_pending_events(limit): the events that are pending or
\* scheduled for retry and whose retry time has arrived, oldest first.
IsPending(i) ==
    /\ events[i].status \in {"pending", "scheduled_retry"}
    /\ (events[i].retry_due_in = -1 \/ events[i].retry_due_in <= 0)

get_pending_events(limit) == Take(SelectSeq(IdSeq, IsPending), limit)

\* event_repo.get_failed_events(max_retry_count, limit): the failed events
\* whose retry count does not exceed max_retry_count; each entry carries the
\* event as it was read (id and processed_at, kept as an age).
IsFailed(i) == events[i].status = "failed"

get_failed_events(max_retry_count, limit) ==
    LET ids == Take(SelectSeq(IdSeq,
                   LAMBDA i : IsFailed(i) /\ events[i].retry_count <= max_retry_count),
                   limit)
    IN [k \in 1..Len(ids) |-> [id |-> ids[k], processed_ago |-> events[ids[k]].processed_ago]]

\* event_repo.get_retry_count
get_retry_count(id) == events[id].retry_count

\* event_repo.update_status(id, status=..., processed_at=now, error=...,
\* retry_count=...): the status is assigned as given; error and retry_count
\* are written only when passed (rc = -1: not passed).
update_status(evs, id, status, error, rc) ==
    [evs EXCEPT ![id] =
        [@ EXCEPT !.status = status,
                  !.processed_ago = 0,
                  !.error = IF error # None THEN error ELSE @,
                  !.retry_count = IF rc # -1 THEN rc ELSE @]]

\* 2^n
RECURSIVE Pow2(_)
Pow2(n) == IF n <= 0 THEN 1 ELSE 2 * Pow2(n - 1)

\* retry scheduler: delay = min(policy.retry_delay * 2^retry_count, cap)
RetryDelayOf(action_id) ==
    IF get_action(action_id) = None THEN DefaultRetryDelay
    ELSE ActionPolicy(action_id).retry_delay

backoff_delay(retry_delay, rc) == Min(retry_delay * Pow2(rc), BackoffCap)

\* event_repo.schedule_retry(id): next_retry_at = now + delay, one more
\* retry counted, status scheduled_retry.
schedule_retry(evs, id) ==
    LET e == evs[id] IN
    [evs EXCEPT ![id] =
        [e EXCEPT !.status = "scheduled_retry",
                  !.retry_due_in =
                      backoff_delay(RetryDelayOf(e.action_id), e.retry_count),
                  !.retry_count = e.retry_count + 1]]

\* result_repo.store_result(event_id, success, result, error)
store_result(res, id, success, result, error) ==
    [i \in DOMAIN res \cup {id} |->
        IF i = id THEN [success |-> success, result |-> result, error |-> error]
        ELSE res[i]]

\* ------------------------------------------------ ProcessEventQueue.execute
Outcomes == {"ok", "fail", "raise"}

\* result.error of a failed ActionResult / str(e) of a raised exception
ErrorOf(outcome) ==
    CASE outcome = "fail" -> "handler error"
      [] outcome = "raise" -> "handler raised"
      [] outcome = "noaction" -> "Action not found"
      [] OTHER -> None

\* events = get_pending_events(limit=batch_size); stats = {...}
PQ_Start(w, batch_size) ==
    /\ wpc[w] = "idle"
    /\ wbatch' = [wbatch EXCEPT ![w] = get_pending_events(batch_size)]
    /\ wstats' = [wstats EXCEPT ![w] = ZeroStats]
    /\ wcur' = [wcur EXCEPT ![w] = NoCur]
    /\ wpc' = [wpc EXCEPT ![w] = "loop"]
    /\ UNCHANGED <<storeVars, response, queryVars, retrierVars, ghostVars>>

\* loop head: get_action(event.action_id); action_repo.execute(action, content)
PQ_Execute(w, outcome) ==
    /\ wpc[w] = "loop"
    /\ wbatch[w] # <<>>
    /\ LET id == Head(wbatch[w]) IN
       IF get_action(events[id].action_id) = None
       THEN /\ wcur' = [wcur EXCEPT ![w] = [id |-> id, outcome |-> "noaction", rc |-> 0]]
            /\ UNCHANGED <<invoked, audit>>
       ELSE /\ wcur' = [wcur EXCEPT ![w] = [id |-> id, outcome |-> outcome, rc |-> 0]]
            /\ invoked' = [invoked EXCEPT ![id] = @ + 1]
            /\ UNCHANGED audit
    /\ wpc' = [wpc EXCEPT ![w] = "handle"]
    /\ UNCHANGED <<storeVars, response, queryVars, wbatch, wstats, retrierVars>>

\* _handle_success: update_status(completed), store_result(success)
PQ_HandleSuccess(w) ==
    /\ wpc[w] = "handle"
    /\ wcur[w].outcome = "ok"
    /\ LET id == wcur[w].id IN
       /\ events' = update_status(events, id, "completed", None, -1)
       /\ results' = store_result(results, id, TRUE, "result", None)
    /\ wstats' = [wstats EXCEPT ![w].succeeded = @ + 1, ![w].processed = @ + 1]
    /\ wbatch' = [wbatch EXCEPT ![w] = Tail(@)]
    /\ wcur' = [wcur EXCEPT ![w] = NoCur]
    /\ wpc' = [wpc EXCEPT ![w] = "loop"]
    /\ UNCHANGED <<response, queryVars, retrierVars, ghostVars>>

\* _handle_failure, first half: update_status(failed, error=error)
PQ_MarkFailed(w) ==
    /\ wpc[w] = "handle"
    /\ wcur[w].outcome # "ok"
    /\ events' = update_status(events, wcur[w].id, "failed",
                               ErrorOf(wcur[w].outcome), -1)
    /\ wpc' = [wpc EXCEPT ![w] = "decide"]
    /\ UNCHANGED <<results, response, queryVars, wbatch, wcur, wstats, retrierVars, ghostVars>>

\* the retry decision of _handle_failure
QueueShouldRetry(retry_count) == retry_count < QueueMaxRetries

\* _handle_failure, second half: retry or store the failure; then the
\* caller's statistics.
PQ_DecideRetry(w) ==
    /\ wpc[w] = "decide"
    /\ LET id == wcur[w].id
           retry == QueueShouldRetry(get_retry_count(id))
           noaction == wcur[w].outcome = "noaction"
       IN
       /\ IF retry
          THEN /\ events' = schedule_retry(events, id)
               /\ invoked' = [invoked EXCEPT ![id] = 0]
               /\ UNCHANGED audit
               /\ UNCHANGED results
          ELSE /\ results' = store_result(results, id, FALSE, None,
                                          ErrorOf(wcur[w].outcome))
               /\ UNCHANGED <<events, invoked, audit>>
       /\ wstats' =
            IF noaction THEN [wstats EXCEPT ![w].failed = @ + 1]
            ELSE IF retry
            THEN [wstats EXCEPT ![w].retry_scheduled = @ + 1, ![w].processed = @ + 1]
            ELSE [wstats EXCEPT ![w].failed = @ + 1, ![w].processed = @ + 1]
    /\ wbatch' = [wbatch EXCEPT ![w] = Tail(@)]
    /\ wcur' = [wcur EXCEPT ![w] = NoCur]
    /\ wpc' = [wpc EXCEPT ![w] = "loop"]
    /\ UNCHANGED <<response, queryVars, retrierVars>>

\* return stats
PQ_Return(w) ==
    /\ wpc[w] = "loop"
    /\ wbatch[w] = <<>>
    /\ wpc' = [wpc EXCEPT ![w] = "idle"]
    /\ wstats' = [wstats EXCEPT ![w] = ZeroStats]
    /\ UNCHANGED <<storeVars, response, queryVars, wbatch, wcur, retrierVars, ghostVars>>

\* ------------------------------------------------ RetryFailedEvents.execute
\* _calculate_backoff: 30 s doubled per retry, capped at one hour
calculate_backoff(retry_count) == Min(BackoffBase * Pow2(retry_count), BackoffCap)

\* _should_retry_now(event, backoff), on the event as read into the batch
should_retry_now(processed_ago, backoff) ==
    IF processed_ago = -1 THEN TRUE ELSE processed_ago >= backoff

\* events = get_failed_events(max_retry_count=max_retries, limit=batch_size)
RF_Start(r, batch_size) ==
    /\ rpc[r] = "idle"
    /\ rbatch' = [rbatch EXCEPT ![r] = get_failed_events(RetryDefaultMaxRetries, batch_size)]
    /\ rstats' = [rstats EXCEPT ![r] = ZeroRetryStats]
    /\ rcur' = [rcur EXCEPT ![r] = NoCur]
    /\ rpc' = [rpc EXCEPT ![r] = "loop"]
    /\ UNCHANGED <<storeVars, response, queryVars, workerVars, ghostVars>>

\* loop head up to the handler call: retry-count check, backoff check,
\* get_action (with _handle_permanent_failure), action_repo.execute
RF_Check(r, outcome) ==
    /\ rpc[r] = "loop"
    /\ rbatch[r] # <<>>
    /\ LET ev == Head(rbatch[r])
           id == ev.id
           retry_count == get_retry_count(id)
       IN
       IF retry_count >= RetryDefaultMaxRetries
       THEN /\ rstats' = [rstats EXCEPT ![r].max_attempts = @ + 1]
            /\ rbatch' = [rbatch EXCEPT ![r] = Tail(@)]
            /\ UNCHANGED <<storeVars, rcur, rpc>>
       ELSE IF ~should_retry_now(ev.processed_ago, calculate_backoff(retry_count))
       THEN /\ rbatch' = [rbatch EXCEPT ![r] = Tail(@)]
            /\ UNCHANGED <<storeVars, rcur, rpc, rstats>>
       ELSE IF get_action(events[id].action_id) = None
       THEN \* _handle_permanent_failure
            /\ events' = update_status(events, id, "failed", "Action not found", -1)
            /\ results' = store_result(results, id, FALSE, None, "Action not found")
            /\ rstats' = [rstats EXCEPT ![r].failed = @ + 1]
            /\ rbatch' = [rbatch EXCEPT ![r] = Tail(@)]
            /\ UNCHANGED <<rcur, rpc>>
       ELSE /\ rcur' = [rcur EXCEPT ![r] = [id |-> id, outcome |-> outcome,
                                            rc |-> retry_count]]
            /\ rpc' = [rpc EXCEPT ![r] = "handle"]
            /\ UNCHANGED <<storeVars, rbatch, rstats>>
    /\ UNCHANGED <<response, queryVars, workerVars, ghostVars>>

\* _handle_success
RF_HandleSuccess(r) ==
    /\ rpc[r] = "handle"
    /\ rcur[r].outcome = "ok"
    /\ events' = update_status(events, rcur[r].id, "completed", None, -1)
    /\ results' = store_result(results, rcur[r].id, TRUE, "result", None)
    /\ rstats' = [rstats EXCEPT ![r].succeeded = @ + 1, ![r].retried = @ + 1]
    /\ rbatch' = [rbatch EXCEPT ![r] = Tail(@)]
    /\ rcur' = [rcur EXCEPT ![r] = NoCur]
    /\ rpc' = [rpc EXCEPT ![r] = "loop"]
    /\ UNCHANGED <<response, queryVars, workerVars, ghostVars>>

\* _handle_failure(event, error, retry_count + 1)
RF_HandleFailure(r) ==
    /\ rpc[r] = "handle"
    /\ rcur[r].outcome # "ok"
    /\ events' = update_status(events, rcur[r].id, "failed",
                               ErrorOf(rcur[r].outcome), rcur[r].rc + 1)
    /\ rstats' = [rstats EXCEPT ![r].failed = @ + 1, ![r].retried = @ + 1]
    /\ rbatch' = [rbatch EXCEPT ![r] = Tail(@)]
    /\ rcur' = [rcur EXCEPT ![r] = NoCur]
    /\ rpc' = [rpc EXCEPT ![r] = "loop"]
    /\ UNCHANGED <<results, response, queryVars, workerVars, ghostVars>>

\* return stats
RF_Return(r) ==
    /\ rpc[r] = "loop"
    /\ rbatch[r] = <<>>
    /\ rpc' = [rpc EXCEPT ![r] = "idle"]
    /\ rstats' = [rstats EXCEPT ![r] = ZeroRetryStats]
    /\ UNCHANGED <<storeVars, response, queryVars, rbatch, rcur, workerVars, ghostVars>>

\* -------------------------------------------------------------------- clock
\* ages beyond the largest backoff the retry usecase compares with are
\* not told apart
AgeCap == calculate_backoff(RetryDefaultMaxRetries)

Elapse(age, d) == IF age = -1 THEN -1 ELSE Min(age + d, AgeCap)
Approach(due_in, d) == IF due_in = -1 THEN -1 ELSE IF due_in <= d THEN 0 ELSE due_in - d

\* how long until some event's retry falls due, for either usecase
Deadlines ==
    {events[i].retry_due_in : i \in EventIds} \cup
    {calculate_backoff(events[i].retry_count) - events[i].processed_ago :
        i \in {j \in EventIds : events[j].processed_ago # -1}}

\* time passes until one of the deadlines
Tick ==
    /\ \E d \in Deadlines :
         /\ d > 0
         /\ events' = [i \in EventIds |->
                [events[i] EXCEPT !.processed_ago = Elapse(@, d),
                                  !.retry_due_in = Approach(@, d)]]
         /\ rbatch' = [r \in Retriers |->
                [k \in 1..Len(rbatch[r]) |->
                    [rbatch[r][k] EXCEPT !.processed_ago = Elapse(@, d)]]]
    /\ UNCHANGED <<results, response, queryVars, workerVars, rpc, rcur, rstats, ghostVars>>

\* --------------------------------------------------------------------- specs
\* the queue engine: deliveries are accepted, workers and the retry usecase
\* run concurrently, time passes
Next ==
    \/ \E a \in QueuedActions \cup {MissingAction} :
          Len(events) < MaxQueued /\ ReceiveWebhook("test", "secret", "json", 1, "k1", a)
    \/ \E w \in Workers, n \in 1..MaxBatch : PQ_Start(w, n)
    \/ \E w \in Workers, o \in Outcomes : PQ_Execute(w, o)
    \/ \E w \in Workers : PQ_HandleSuccess(w)
    \/ \E w \in Workers : PQ_MarkFailed(w)
    \/ \E w \in Workers : PQ_DecideRetry(w)
    \/ \E w \in Workers : PQ_Return(w)
    \/ \E r \in Retriers, n \in 1..MaxBatch : RF_Start(r, n)
    \/ \E r \in Retriers, o \in Outcomes : RF_Check(r, o)
    \/ \E r \in Retriers : RF_HandleSuccess(r)
    \/ \E r \in Retriers : RF_HandleFailure(r)
    \/ \E r \in Retriers : RF_Return(r)
    \/ Tick

Spec == Init /\ [][Next]_vars

\* the webhook endpoint alone, over all its inputs
NextIngest ==
    \E w \in InWebhookIds, k \in InKeys, f \in BodyForms, n \in BodySizes,
       c \in InCorrelationIds :
          ReceiveWebhook(w, k, f, n, c, "smtp")

SpecIngest == Init /\ [][NextIngest]_vars

\* ------------------------------------------------- GetWebhookStatus.execute
\* interfaces/responses.py: WebhookStatusResponse.status is a Literal
StatusLiteral == {"pending", "processing", "completed", "failed"}

\* event_repo.get_status(response_id): the status entry, if there is one
has_status(response_id) == response_id \in EventIds

get_status(response_id) ==
    [state |-> events[response_id].status,
     correlation_id |-> events[response_id].correlation_id,
     error |-> events[response_id].error]

\* result_repo.get_result(response_id)
has_result(response_id) == response_id \in DOMAIN results

get_result(response_id) == results[response_id]

\* the variant that asks the result store whatever the state is
reads_result_always(state) == TRUE

\* "if status.state in ["completed", "failed"]": only then is the result read
reads_result(state) == state \in {"completed", "failed"}

StatusReply(kind, response_id, status, result, error, correlation_id) ==
    [kind |-> kind, response_id |-> response_id, status |-> status,
     result |-> result, error |-> error, correlation_id |-> correlation_id]

\* GetWebhookStatus.execute(response_id): what the call returns or raises
status_response(response_id) ==
    IF ~has_status(response_id)
    THEN \* ValueError("Unknown response ID: ...")
         StatusReply("unknown", response_id, None, None, None, None)
    ELSE LET status == get_status(response_id)
             read == reads_result(status.state) /\ has_result(response_id)
             result == IF read THEN get_result(response_id).result ELSE None
             stored == IF read THEN get_result(response_id).error ELSE None
             \* "if not error and status.error: error = status.error"
             error == IF stored = None /\ status.error # None THEN status.error
                      ELSE stored
         IN IF status.state \notin StatusLiteral
            THEN \* WebhookStatusResponse(status=...) fails validation
                 StatusReply("validation_error", response_id, status.state,
                             result, error, status.correlation_id)
            ELSE StatusReply("ok", response_id, status.state, result, error,
                             status.correlation_id)

\* GET /status/{response_id}
GetWebhookStatus(response_id) ==
    /\ status_reply' = status_response(response_id)
    /\ UNCHANGED <<storeVars, response, call, workerVars, retrierVars, ghostVars>>

\* InMemoryEventRepository.record_received (repositories/memory.py), the event
\* repository of base_settings: the receipt is stored under the response id
\* the caller passes and its status entry is created in state "received".
RecordReceivedMemory(webhook_id, correlation_id, action_id) ==
    /\ Len(events) < MaxQueued
    /\ events' = Append(events,
          [webhook_id |-> webhook_id, body_len |-> 1,
           content_type |-> "json", correlation_id |-> correlation_id,
           action_id |-> action_id, status |-> "received", retry_count |-> 0,
           processed_ago |-> -1, retry_due_in |-> -1,
           error |-> None])
    /\ invoked' = Append(invoked, 0)
    /\ UNCHANGED audit
    /\ UNCHANGED <<results, response, queryVars, workerVars, retrierVars>>

\* one worker and the retry usecase over the store, and the status endpoint
StatusWorkers == {"w1"}

NextEngine ==
    \/ \E a \in QueuedActions \cup {MissingAction}, c \in InCorrelationIds :
          Len(events) < MaxQueued /\ ReceiveWebhook("test", "secret", "json", 1, c, a)
    \/ \E w \in StatusWorkers, n \in 1..MaxBatch : PQ_Start(w, n)
    \/ \E w \in StatusWorkers, o \in Outcomes : PQ_Execute(w, o)
    \/ \E w \in StatusWorkers : PQ_HandleSuccess(w)
    \/ \E w \in StatusWorkers : PQ_MarkFailed(w)
    \/ \E w \in StatusWorkers : PQ_DecideRetry(w)
    \/ \E w \in StatusWorkers : PQ_Return(w)
    \/ \E r \in Retriers, n \in 1..MaxBatch : RF_Start(r, n)
    \/ \E r \in Retriers, o \in Outcomes : RF_Check(r, o)
    \/ \E r \in Retriers : RF_HandleSuccess(r)
    \/ \E r \in Retriers : RF_HandleFailure(r)
    \/ \E r \in Retriers : RF_Return(r)
    \/ Tick

NextStatus ==
    \/ NextEngine
    \/ \E c \in InCorrelationIds : RecordReceivedMemory("test", c, "smtp")
    \/ \E id \in 1..(MaxQueued + 1) : GetWebhookStatus(id)

SpecStatus == Init /\ [][NextStatus]_vars

\* one invocation of ProcessEventQueue.execute by worker w, step by step
QueueProcessor(w) ==
    \/ \E n \in 1..MaxBatch : PQ_Start(w, n)
    \/ \E o \in Outcomes : PQ_Execute(w, o)
    \/ PQ_HandleSuccess(w)
    \/ PQ_MarkFailed(w)
    \/ PQ_DecideRetry(w)
    \/ PQ_Return(w)

\* one invocation of RetryFailedEvents.execute by runner r, step by step
RetryRun(r) ==
    \/ \E n \in 1..MaxBatch : RF_Start(r, n)
    \/ \E o \in Outcomes : RF_Check(r, o)
    \/ RF_HandleSuccess(r)
    \/ RF_HandleFailure(r)
    \/ RF_Return(r)

\* the engine under a periodic trigger: the queue processor and the retry
\* usecase are invoked again and again and every invocation runs to its
\* end, and time passes
SpecLive ==
    /\ Init
    /\ [][NextEngine]_vars
    /\ \A w \in StatusWorkers : WF_vars(QueueProcessor(w))
    /\ \A r \in Retriers : WF_vars(RetryRun(r))
    /\ WF_vars(Tick)

\* ------------------------------------------- the repositories, called directly
\* The event and result repositories driven through their own methods, as
\* the tests of the status usecase drive them: record_received, then
\* update_status and store_result with the caller's arguments, then the query.
RequestedStatuses == {"processing", "completed", "failed"}
RequestedErrors == {None, "Processing failed"}

\* InMemoryEventRepository.update_event_status(event_id, status, error): an
\* unknown event raises; otherwise the status is assigned, and the error too
\* when one is passed
update_event_status(evs, event_id, status, error) ==
    [evs EXCEPT ![event_id] =
        [@ EXCEPT !.status = status,
                  !.error = IF error # None THEN error ELSE @]]

UpdateEventStatus(event_id, status, error) ==
    /\ IF event_id \notin EventIds
       THEN /\ call' = [fn |-> "update_event_status", raised |-> "Event not found"]
            /\ UNCHANGED events
       ELSE /\ call' = [fn |-> "update_event_status", raised |-> None]
            /\ events' = update_event_status(events, event_id, status, error)
    /\ UNCHANGED <<results, response, status_reply, workerVars, retrierVars,
                   ghostVars>>

\* result_repo.store_result(response_id, success, result, error)
StoreResult(response_id, success) ==
    /\ results' = IF success
                  THEN store_result(results, response_id, TRUE, "processed", None)
                  ELSE store_result(results, response_id, FALSE, None,
                                    "Processing failed")
    /\ UNCHANGED <<events, response, queryVars, workerVars, retrierVars, ghostVars>>

\* TrackDeliveryMetrics.record_attempt(action, success, duration): one
\* record_event with metadata type delivery_attempt.  Nothing in
\* ProcessEventQueue or RetryFailedEvents calls it.
RecordAttempt(action_id, success) ==
    /\ Len(audit) < MaxStored
    /\ audit' = Append(audit, [action_id |-> action_id, success |-> success])
    /\ UNCHANGED <<storeVars, response, queryVars, workerVars, retrierVars, invoked>>

NextRepo ==
    \/ /\ Len(events) < MaxStored
       /\ \E correlation_id \in InCorrelationIds :
             ReceiveWebhook("test", "secret", "json", 1, correlation_id, "smtp")
    \/ \E event_id \in 1..(MaxStored + 1), status \in RequestedStatuses,
          error \in RequestedErrors :
            UpdateEventStatus(event_id, status, error)
    \/ \E response_id \in EventIds, success \in BOOLEAN :
            StoreResult(response_id, success)
    \/ \E response_id \in 1..(MaxStored + 1) : GetWebhookStatus(response_id)
    \/ \E success \in BOOLEAN : RecordAttempt("smtp", success)

SpecRepo == Init /\ [][NextRepo]_vars

\* ------------------------------------------------------ backoff, on its own
\* the policies deliveries are made under
BackoffPolicies == CataloguePolicies \cup {STREAMING_POLICY}

InitBackoff ==
    /\ InitEngine
    /\ call \in {[fn |-> "input", policy |-> p, retry_count |-> n] :
                    p \in BackoffPolicies, n \in 0..MaxRetryCount}

\* RetryFailedEvents._calculate_backoff(retry_count) for an event delivered
\* under call.policy
CalculateBackoff ==
    /\ call.fn = "input"
    /\ call' = [fn |-> "_calculate_backoff", policy |-> call.policy,
                retry_count |-> call.retry_count,
                delay |-> calculate_backoff(call.retry_count)]
    /\ UNCHANGED <<storeVars, response, status_reply, workerVars, retrierVars,
                   ghostVars>>

SpecBackoff == InitBackoff /\ [][CalculateBackoff]_vars

\* ------------------------------------------------ DeliveryPolicy construction
\* (mutation of retries_forbidden: only a positive limit is refused)
retries_forbidden_positive_only(semantic, max_retries) ==
    ~semantic.allows_retry /\ max_retries > 0

\* __post_init__: "if not self.semantic.allows_retry and self.max_retries != 0"
retries_forbidden(semantic, max_retries) ==
    ~semantic.allows_retry /\ max_retries # 0

\* (mutation of ack_missing: the check is skipped when retries are allowed)
ack_missing_unless_retry(semantic) ==
    semantic.requires_dedup /\ ~semantic.requires_ack /\ ~semantic.allows_retry

\* __post_init__: "if self.semantic.requires_dedup and not self.semantic.requires_ack"
ack_missing(semantic) == semantic.requires_dedup /\ ~semantic.requires_ack

\* DeliveryPolicy.__post_init__: the ValueError raised, or None
post_init(semantic, max_retries) ==
    IF retries_forbidden(semantic, max_retries) THEN "cannot have retries"
    ELSE IF ack_missing(semantic) THEN "requires acknowledgment"
    ELSE None

\* every DeliverySemantic the dataclass admits
Semantics ==
    [id : {"custom"}, requires_ack : BOOLEAN, allows_retry : BOOLEAN,
     preserves_order : BOOLEAN, requires_dedup : BOOLEAN] \cup CatalogueSemantics

PolicyMaxRetries == {Unlimited} \cup 0..MaxPolicyRetries
PolicyRetryDelays == {10, DefaultRetryDelay}
PolicyExpiries == {NoExpiry, 60}

InitPolicy ==
    /\ InitEngine
    /\ call \in {[fn |-> "input", semantic |-> s, max_retries |-> m,
                  retry_delay |-> d, expiry |-> x] :
                    s \in Semantics, m \in PolicyMaxRetries,
                    d \in PolicyRetryDelays, x \in PolicyExpiries}

\* DeliveryPolicy(semantic, max_retries, retry_delay, expiry)
NewDeliveryPolicy ==
    /\ call.fn = "input"
    /\ call' = [fn |-> "DeliveryPolicy", semantic |-> call.semantic,
                max_retries |-> call.max_retries,
                retry_delay |-> call.retry_delay, expiry |-> call.expiry,
                raised |-> post_init(call.semantic, call.max_retries)]
    /\ UNCHANGED <<storeVars, response, status_reply, workerVars, retrierVars,
                   ghostVars>>

SpecPolicy == InitPolicy /\ [][NewDeliveryPolicy]_vars

\* ------------------------------------------------------------------ routing
\* usecases/routing.py defines the class RouteMessage twice; the name is
\* bound to the second definition, the first one is shadowed.
\*
\* A rule is [destination, condition, priority, stop_processing]; a message
\* is a record of its fields.
Destinations == <<"Q1", "Q2", "Q3", "Q4">>
FallbackDestination == "FB"
Conditions == {None, "priority>5", "urgent", "payload"}
Priorities == {5, 10}
Strategies == {"first-match", "all-matching", "priority"}
\* the truth value of the payload cannot be taken: bool(payload) raises
Unboolable == "Unboolable"
Messages == [priority : {1, 10}, urgent : BOOLEAN, payload : {Unboolable}]

RuleShapes == [condition : Conditions, priority : Priorities, stop_processing : BOOLEAN]

\* rule lists of a given length; rule k delivers to Destinations[k]
RuleLists(n) ==
    {[k \in 1..n |-> [destination |-> Destinations[k],
                      condition |-> shapes[k].condition,
                      priority |-> shapes[k].priority,
                      stop_processing |-> shapes[k].stop_processing]] :
        shapes \in [1..n -> RuleShapes]}

RoutingConfigurations ==
    [rules : UNION {RuleLists(n) : n \in 0..MaxRules},
     strategy : Strategies,
     fallback : {None, FallbackDestination}]

\* sorted(rules, key=lambda r: r.priority, reverse=True): a stable sort, so
\* rules of equal priority keep their order
rank(rules, k) ==
    1 + Cardinality({j \in 1..Len(rules) :
                        \/ rules[j].priority > rules[k].priority
                        \/ (rules[j].priority = rules[k].priority /\ j < k)})

sorted_by_priority(rules) ==
    [pos \in 1..Len(rules) |->
        rules[CHOOSE k \in 1..Len(rules) : rank(rules, k) = pos]]

\* the destinations of the rules k with hit[k], in the order of the list
matching(rules, hit) ==
    LET ks == SelectSeq([k \in 1..Len(rules) |-> k], LAMBDA k : hit[k])
    IN [n \in 1..Len(ks) |-> rules[ks[n]].destination]

\* ... stopping after the first one
first_matching(rules, hit) ==
    LET all == matching(rules, hit) IN
    IF all = <<>> THEN <<>> ELSE <<Head(all)>>

\* first definition, _evaluate_condition(rule): a rule without a condition
\* matches, any condition is False ("TODO: Implement condition evaluation")
evaluate_condition_todo(rule) == rule.condition = None

\* _evaluate_condition of the first definition along a rule list
evaluated_todo(rules) == [k \in 1..Len(rules) |-> evaluate_condition_todo(rules[k])]

\* first definition, execute(): by strategy, then the fallback
route_by_strategy(message, config) ==
    LET sorted_rules == sorted_by_priority(config.rules)
        found ==
          CASE config.strategy = "first-match" ->
                 first_matching(config.rules, evaluated_todo(config.rules))
            [] config.strategy = "all-matching" ->
                 matching(config.rules, evaluated_todo(config.rules))
            [] config.strategy = "priority" ->
                 first_matching(sorted_rules, evaluated_todo(sorted_rules))
            [] OTHER -> <<>>
    IN IF found = <<>> /\ config.fallback # None THEN <<config.fallback>>
       ELSE found

\* second definition, _evaluate_condition(condition, message), the body of
\* its try block: the dotted path is looked up in the message (a missing
\* key raises KeyError) and the value is coerced with bool() (which raises
\* for a value without a truth value)
try_lookup(condition, message) ==
    IF condition \notin DOMAIN message THEN "KeyError"
    ELSE CASE condition = "priority" ->
                (IF message.priority # 0 THEN "True" ELSE "False")
           [] condition = "urgent" ->
                (IF message.urgent THEN "True" ELSE "False")
           [] condition = "payload" ->
                (IF message.payload = Unboolable THEN "ValueError" ELSE "True")

Raised == {"KeyError", "ValueError"}

\* the variant whose except clause re-raises
evaluate_condition_reraising(condition, message) ==
    IF condition = None THEN "True" ELSE try_lookup(condition, message)

\* second definition, _evaluate_condition(condition, message): no condition
\* is True; whatever the try block raises is caught and gives False
evaluate_condition(condition, message) ==
    IF condition = None THEN "True"
    ELSE LET outcome == try_lookup(condition, message)
         IN IF outcome \in Raised THEN "False" ELSE outcome

NoDestinations == [destinations |-> <<>>, raised |-> None]

\* second definition, execute(message, rules): every matching rule in
\* descending priority, up to a rule with config["stop_processing"]; an
\* exception of the evaluation would leave the loop and the call
RECURSIVE route_sorted(_, _, _)
route_sorted(message, rules, k) ==
    IF k > Len(rules) THEN NoDestinations
    ELSE LET outcome == evaluate_condition(rules[k].condition, message)
             rest == route_sorted(message, rules, k + 1)
         IN IF outcome \in Raised THEN [destinations |-> <<>>, raised |-> outcome]
            ELSE IF outcome = "False" THEN rest
            ELSE IF rules[k].stop_processing
            THEN [destinations |-> <<rules[k].destination>>, raised |-> None]
            ELSE IF rest.raised # None THEN rest
            ELSE [destinations |-> <<rules[k].destination>> \o rest.destinations,
                  raised |-> None]

route_all_by_priority(message, rules) ==
    route_sorted(message, sorted_by_priority(rules), 1)

InitRouting ==
    /\ InitEngine
    /\ call \in {[fn |-> "input", message |-> m, config |-> c] :
                    m \in Messages, c \in RoutingConfigurations}

\* RouteMessage(action_repo, event_repo).execute(message, config.rules): the
\* class the module exports
RouteMessage ==
    /\ call.fn = "input"
    /\ call' = [fn |-> "RouteMessage", message |-> call.message,
                config |-> call.config,
                destinations |->
                    route_all_by_priority(call.message, call.config.rules).destinations,
                raised |-> route_all_by_priority(call.message, call.config.rules).raised]
    /\ UNCHANGED <<storeVars, response, status_reply, workerVars, retrierVars,
                   ghostVars>>

\* RouteMessage(message, routing_config).execute(): the shadowed class
RouteMessageShadowed ==
    /\ call.fn = "input"
    /\ call' = [fn |-> "RouteMessage (shadowed)", message |-> call.message,
                config |-> call.config,
                destinations |-> route_by_strategy(call.message, call.config),
                raised |-> None]
    /\ UNCHANGED <<storeVars, response, status_reply, workerVars, retrierVars,
                   ghostVars>>

NextRouting == RouteMessage \/ RouteMessageShadowed

SpecRouting == InitRouting /\ [][NextRouting]_vars

\* ------------------------------------------------ CleanupExpiredEvents.execute
\* The stored events a cleanup run meets.  metadata is the value of the
\* event's "retain" field, None when it has no such field; fails names the
\* repository call that raises for this event, None when none does.
CleanupStatuses == {"pending", "completed"}
RetainValues == {None, "False", "True"}
DeleteFailures == {None, "delete_result", "delete_event"}
StoredEvents ==
    [status : CleanupStatuses, retry_count : 0..QueueMaxRetries,
     retain : RetainValues, expired : BOOLEAN, fails : DeleteFailures]

ZeroCleanupStats == [deleted |-> 0, retained |-> 0, errors |-> 0]

InitCleanup ==
    /\ InitEngine
    /\ \E n \in 1..MaxExpired :
         call \in {[fn |-> "input", stored |-> st] : st \in [1..n -> StoredEvents]}

\* (mutation of can_delete: events with active retries are not spared)
can_delete_ignoring_retries(event) ==
    /\ event.status # "pending"
    /\ event.retain \notin {"True"}

\* _can_delete(event): not pending, no truthy "retain" field, and a retry
\* count that is not between 1 and 2
can_delete(event) ==
    /\ event.status # "pending"
    /\ event.retain \notin {"True"}
    /\ ~(event.retry_count > 0 /\ event.retry_count < 3)

\* event_repo.list_events(end_time=cutoff): the ids of the expired events
list_events(stored) ==
    SelectSeq([i \in 1..Len(stored) |-> i], LAMBDA i : stored[i].expired)

\* execute, up to the loop: the statistics and the list of expired events
Cleanup_Start ==
    /\ call.fn = "input"
    /\ call' = [fn |-> "cleanup", pc |-> "check", stored |-> call.stored,
                kept |-> 1..Len(call.stored), with_result |-> 1..Len(call.stored),
                todo |-> list_events(call.stored), stats |-> ZeroCleanupStats]
    /\ UNCHANGED <<storeVars, response, status_reply, workerVars, retrierVars,
                   ghostVars>>

\* loop head: "if self._can_delete(event)", else stats["retained"] += 1
Cleanup_Check ==
    /\ call.fn = "cleanup" /\ call.pc = "check" /\ call.todo # <<>>
    /\ call' = IF can_delete(call.stored[Head(call.todo)])
               THEN [call EXCEPT !.pc = "delete_result"]
               ELSE [call EXCEPT !.stats.retained = @ + 1, !.todo = Tail(@)]
    /\ UNCHANGED <<storeVars, response, status_reply, workerVars, retrierVars,
                   ghostVars>>

\* result_repo.delete_result(event.id); an exception counts an error and
\* ends the handling of this event
Cleanup_DeleteResult ==
    /\ call.fn = "cleanup" /\ call.pc = "delete_result"
    /\ call' = IF call.stored[Head(call.todo)].fails = "delete_result"
               THEN [call EXCEPT !.stats.errors = @ + 1, !.todo = Tail(@),
                                 !.pc = "check"]
               ELSE [call EXCEPT !.with_result = @ \ {Head(call.todo)},
                                 !.pc = "delete_event"]
    /\ UNCHANGED <<storeVars, response, status_reply, workerVars, retrierVars,
                   ghostVars>>

\* event_repo.delete_event(event.id) and stats["deleted"] += 1; an exception
\* counts an error
Cleanup_DeleteEvent ==
    /\ call.fn = "cleanup" /\ call.pc = "delete_event"
    /\ call' = IF call.stored[Head(call.todo)].fails = "delete_event"
               THEN [call EXCEPT !.stats.errors = @ + 1, !.todo = Tail(@),
                                 !.pc = "check"]
               ELSE [call EXCEPT !.kept = @ \ {Head(call.todo)},
                                 !.stats.deleted = @ + 1, !.todo = Tail(@),
                                 !.pc = "check"]
    /\ UNCHANGED <<storeVars, response, status_reply, workerVars, retrierVars,
                   ghostVars>>

\* return stats
Cleanup_Return ==
    /\ call.fn = "cleanup" /\ call.pc = "check" /\ call.todo = <<>>
    /\ call' = [call EXCEPT !.fn = "CleanupExpiredEvents", !.pc = "done"]
    /\ UNCHANGED <<storeVars, response, status_reply, workerVars, retrierVars,
                   ghostVars>>

NextCleanup ==
    \/ Cleanup_Start
    \/ Cleanup_Check
    \/ Cleanup_DeleteResult
    \/ Cleanup_DeleteEvent
    \/ Cleanup_Return

SpecCleanup == InitCleanup /\ [][NextCleanup]_vars

\* ------------------------------------------------------ ExecuteAction.execute
\* usecases/execute.py defines ExecuteAction twice; the second definition
\* replaces the first when the module is loaded.  A request names an action
\* and carries a correlation id; setup is what get_protocol_handler does and
\* outcome what the execution does.  An error text is the sequence of its
\* parts, so that "contains the exception's message" can be told.
ExecuteCorrelationIds == {"test-corr-1", "test-corr-2"}
SetupOutcomes == {"ok", "raise"}
ExecuteRequests ==
    [action_id : ActionIds \cup {MissingAction},
     correlation_id : ExecuteCorrelationIds,
     setup : SetupOutcomes, outcome : Outcomes]

InitExecute ==
    /\ InitEngine
    /\ call \in {[fn |-> "input", request |-> r] : r \in ExecuteRequests}

\* str(e) of the AttributeError of request.id: ExecuteActionRequest has no
\* field "id"
NoRequestId == "'ExecuteActionRequest' object has no attribute 'id'"

record_success(action_id) == [kind |-> "success", action_id |-> action_id, error |-> <<>>]
record_failure(action_id, error) == [kind |-> "failure", action_id |-> action_id, error |-> error]

ActionStatusResponse(request, status, error) ==
    [request_id |-> request.action_id, correlation_id |-> request.correlation_id,
     status |-> status, error |-> error]

\* second definition, execute(request): get_action, action_repo.execute(action)
\* whose return value is not looked at, record_success; an exception of the
\* execution is recorded with record_failure
execute_action(request) ==
    IF get_action(request.action_id) = None
    THEN [response |-> ActionStatusResponse(request, "failed", <<"Action not found">>),
          recorded |-> <<>>]
    ELSE IF request.outcome = "raise"
    THEN LET error == <<"Action execution failed: ", ErrorOf("raise")>>
         IN [response |-> ActionStatusResponse(request, "failed", error),
             recorded |-> <<record_failure(request.action_id, error)>>]
    ELSE [response |-> ActionStatusResponse(request, "completed", <<>>),
          recorded |-> <<record_success(request.action_id)>>]

\* first definition, execute(request): get_action, get_protocol_handler,
\* handler.execute(action), record_success or record_failure by
\* result.success.  The handler of a raised exception records the failure
\* and then reads request.id, which raises inside the outer try: the outer
\* handler records a second failure and answers with its own error text.
execute_action_via_handler(request) ==
    IF get_action(request.action_id) = None
    THEN [response |-> ActionStatusResponse(request, "failed", <<"Action not found">>),
          recorded |-> <<>>]
    ELSE IF request.setup = "raise"
    THEN LET error == <<"Action setup failed: ", "handler setup raised">>
         IN [response |-> ActionStatusResponse(request, "failed", error),
             recorded |-> <<record_failure(request.action_id, error)>>]
    ELSE IF request.outcome = "ok"
    THEN [response |-> ActionStatusResponse(request, "completed", <<>>),
          recorded |-> <<record_success(request.action_id)>>]
    ELSE IF request.outcome = "fail"
    THEN [response |-> ActionStatusResponse(request, "failed", <<ErrorOf("fail")>>),
          recorded |-> <<record_failure(request.action_id, <<ErrorOf("fail")>>)>>]
    ELSE LET inner == <<"Action execution failed: ", ErrorOf("raise")>>
             outer == <<"Action setup failed: ", NoRequestId>>
         IN [response |-> ActionStatusResponse(request, "failed", outer),
             recorded |-> <<record_failure(request.action_id, inner),
                            record_failure(request.action_id, outer)>>]

\* ExecuteAction(reposet).execute(request): the class the module exports
ExecuteAction ==
    /\ call.fn = "input"
    /\ call' = [fn |-> "ExecuteAction", request |-> call.request,
                response |-> execute_action(call.request).response,
                recorded |-> execute_action(call.request).recorded]
    /\ UNCHANGED <<storeVars, response, status_reply, workerVars, retrierVars,
                   ghostVars>>

\* the shadowed class
ExecuteActionShadowed ==
    /\ call.fn = "input"
    /\ call' = [fn |-> "ExecuteAction (shadowed)", request |-> call.request,
                response |-> execute_action_via_handler(call.request).response,
                recorded |-> execute_action_via_handler(call.request).recorded]
    /\ UNCHANGED <<storeVars, response, status_reply, workerVars, retrierVars,
                   ghostVars>>

NextExecute == ExecuteAction \/ ExecuteActionShadowed

SpecExecute == InitExecute /\ [][NextExecute]_vars

\* ==================================================================== claims
Policy(i) == ActionPolicy(events[i].action_id)
HasAction(i) == get_action(events[i].action_id) # None

\* a worker's step that calls the protocol handler for an event
WorkerInvokes(w) ==
    wpc[w] = "loop" /\ wpc'[w] = "handle" /\ wcur'[w].outcome # "noaction"

\* a retry run's step that calls the protocol handler for an event
RetrierInvokes(r) == rpc[r] = "loop" /\ rpc'[r] = "handle"

\* C1: of the workers running ProcessEventQueue.execute on the same store,
\* exactly one claims a pending event; the handler is never invoked twice
\* for the same claimable occurrence of an event.
C1_ExactlyOneClaim == \A i \in EventIds : invoked[i] <= 1

\* the transition table of the event state machine
TransitionTable ==
    {<<"pending", "processing">>, <<"processing", "completed">>,
     <<"processing", "failed">>, <<"failed", "scheduled_retry">>,
     <<"scheduled_retry", "processing">>, <<"failed", "exhausted">>,
     <<"pending", "rejected">>}

\* C2: no operation of the queue processor, the retry usecase or the event
\* repository changes an event's status other than along the transition
\* table.
C2_OnlyTableTransitions ==
    [][\A i \in EventIds :
          events'[i].status # events[i].status =>
              <<events[i].status, events'[i].status>> \in TransitionTable]_vars

\* C3: the retry count of an event whose action has a finite max_retries
\* never exceeds that max_retries.
C3_RetryCountWithinPolicy ==
    \A i \in EventIds :
        (HasAction(i) /\ Policy(i).max_retries # Unlimited) =>
            events[i].retry_count <= Policy(i).max_retries

\* retry eligibility under a policy; no policy of the catalogue sets an
\* expiry, so the age condition is the absence of one
Eligible(policy, retry_count) ==
    /\ policy.semantic.allows_retry
    /\ (policy.max_retries = Unlimited \/ retry_count < policy.max_retries)
    /\ policy.expiry = NoExpiry

\* C4: after a failed attempt a retry is scheduled if and only if the owning
\* action's policy allows one (semantic allows retry, retry count below the
\* policy's max_retries or unlimited, not expired); otherwise the event is
\* exhausted.
C4_RetryIffPolicyAllows ==
    [][\A w \in Workers :
          (wpc[w] = "decide" /\ wpc'[w] = "loop" /\ HasAction(wcur[w].id)) =>
              ((events'[wcur[w].id].status = "scheduled_retry")
                 <=> Eligible(Policy(wcur[w].id), events[wcur[w].id].retry_count))]_vars

\* the event is scheduled for a retry whose time has not come
RetryNotDue(i) == events[i].status = "scheduled_retry" /\ events[i].retry_due_in > 0

\* C5: neither usecase executes an event that is scheduled for retry before
\* its next retry time.
C5_NoExecutionBeforeRetryTime ==
    [][/\ \A w \in Workers : WorkerInvokes(w) => ~RetryNotDue(wcur'[w].id)
       /\ \A r \in Retriers : RetrierInvokes(r) => ~RetryNotDue(rcur'[r].id)]_vars

\* C6: an event whose action_id resolves to no action fails permanently: no
\* retry is ever scheduled for it.
C6_MissingActionNeverRetried ==
    \A i \in EventIds : ~HasAction(i) => events[i].status # "scheduled_retry"

Terminal(i) == events[i].status \in {"completed", "exhausted", "rejected"}

\* C7: a second ReceiveWebhook.execute for the same webhook with the same
\* correlation id, while the first event is non-terminal, returns the first
\* call's response_id and stores nothing.
C7_IngestionIdempotent ==
    [][\A i \in EventIds :
          (/\ response'.kind = "accepted"
           /\ response' # response
           /\ response'.correlation_id # None
           /\ response'.correlation_id = events[i].correlation_id
           /\ response'.webhook_id = events[i].webhook_id
           /\ ~Terminal(i))
          => (response'.response_id = i /\ Len(events') = Len(events))]_vars

\* C8: however the calls interleave, at most one event exists per webhook
\* and correlation id.
C8_OneEventPerKey ==
    \A i, j \in EventIds :
        (/\ events[i].correlation_id # None
         /\ events[i].correlation_id = events[j].correlation_id
         /\ events[i].webhook_id = events[j].webhook_id) => i = j

\* C9: ReceiveWebhook.execute with an unknown webhook id or a wrong key
\* returns the rejection value and leaves the event store and the result
\* store exactly as they were.
C9_RejectionStoresNothing ==
    [][(/\ response' # response
        /\ response'.kind # "invalid"
        /\ (response'.webhook_id \notin WebhookIds \/ response'.key # "secret"))
       => (response'.kind = "rejected" /\ UNCHANGED <<events, results, invoked>>)]_vars

C9_Witness ==
    /\ response.kind = "rejected"
    /\ response.webhook_id = "test"
    /\ response.key = "wrong"
    /\ Len(events) = 1

\* C10: no submission whose normalised body exceeds 1,000,000 bytes is
\* stored, in whichever form the body arrived.
C10_NoOversizedBodyStored ==
    \A i \in EventIds : events[i].body_len <= MaxDataSize

\* a status query for event i has just returned
Queried(i) == status_reply' # status_reply /\ status_reply'.response_id = i

\* no processor has written the status of event i yet
Unprocessed(i) == events[i].processed_ago = -1

LastAttemptError(i) == events[i].error

\* retries of event i have run out: it is failed and its failure result is
\* persisted
RetriesExhausted(i) ==
    /\ events[i].status = "failed"
    /\ has_result(i)
    /\ ~get_result(i).success

\* C12: once the retries of an event are exhausted and its failure result is
\* persisted, the status query reports failed with the error of the last
\* failed attempt.
C12_LastErrorPreserved ==
    [][\A i \in EventIds :
          (Queried(i) /\ RetriesExhausted(i)) =>
              /\ status_reply'.status = "failed"
              /\ status_reply'.error # None
              /\ status_reply'.error = LastAttemptError(i)]_vars

\* worker w finishes _handle_success for event i
HandlesSuccess(w, i) ==
    /\ wpc[w] = "handle"
    /\ wcur[w].outcome = "ok"
    /\ wcur[w].id = i
    /\ wpc'[w] = "loop"

Settled(i) ==
    /\ i \in EventIds
    /\ \/ events[i].status = "completed"
       \/ /\ events[i].status \in {"failed", "exhausted"}
          /\ has_result(i)
          /\ ~get_result(i).success

\* C14: under fair, repeated invocation of the processors every accepted
\* event eventually reaches a terminal status.
C14_EventuallyTerminal ==
    \A i \in 1..MaxQueued : (i \in EventIds) ~> Settled(i)

\* C15: the backoff delay for retry count n is min(policy.retry_delay * 2^n,
\* 3600 s), policy being the policy the event is delivered under.
C15_BackoffFromPolicyDelay ==
    call.fn = "_calculate_backoff" =>
        call.delay = Min(call.policy.retry_delay * Pow2(call.retry_count), BackoffCap)

\* a DeliveryPolicy has been constructed, successfully or not
Constructed == call.fn = "DeliveryPolicy"

\* C16: constructing a DeliveryPolicy whose semantic does not allow retry
\* succeeds only when max_retries is exactly 0; any other value, None
\* included, raises.
C16_NoRetrySemanticNeedsZero ==
    (Constructed /\ ~call.semantic.allows_retry) =>
        /\ call.raised = None => call.max_retries = 0
        /\ call.max_retries # 0 => call.raised # None

C16_Witness ==
    /\ Constructed
    /\ ~call.semantic.allows_retry
    /\ call.max_retries = Unlimited
    /\ call.raised = "cannot have retries"

\* C17: constructing a DeliveryPolicy whose semantic requires dedup but no
\* acknowledgment raises, whatever max_retries, retry_delay and expiry are;
\* every semantic and policy of the catalogue has requires_dedup =>
\* requires_ack.
C17_DedupNeedsAck ==
    /\ (Constructed /\ call.semantic.requires_dedup /\ ~call.semantic.requires_ack)
           => call.raised # None
    /\ \A s \in CatalogueSemantics : s.requires_dedup => s.requires_ack
    /\ \A p \in CataloguePolicies :
           p.semantic.requires_dedup => p.semantic.requires_ack

C17_Witness ==
    /\ Constructed
    /\ call.semantic.requires_dedup /\ ~call.semantic.requires_ack
    /\ call.semantic.allows_retry
    /\ call.max_retries = Unlimited /\ call.expiry = 60
    /\ call.raised = "requires acknowledgment"

\* RouteMessage has returned, in either definition
Routed == call.fn \in {"RouteMessage", "RouteMessage (shadowed)"}

\* a rule's condition holds of a message: no condition always holds,
\* "priority>5" compares the priority field, a field name reads the field
Matches(rule, message) ==
    CASE rule.condition = None -> TRUE
      [] rule.condition = "priority>5" -> message.priority > 5
      [] rule.condition = "urgent" -> message.urgent
      [] OTHER -> FALSE

\* which rules of a list have a condition that holds of the routed message
Matched(rules) == [k \in 1..Len(rules) |-> Matches(rules[k], call.message)]

SomeRuleMatches ==
    \E k \in 1..Len(call.config.rules) : Matches(call.config.rules[k], call.message)

\* C18: with strategy first-match the result is exactly the destination of
\* the first rule, in configured order, whose condition holds.
C18_FirstMatch ==
    (Routed /\ call.config.strategy = "first-match" /\ SomeRuleMatches) =>
        call.destinations =
            first_matching(call.config.rules, Matched(call.config.rules))

\* C19: with strategy priority the result is the one destination of the
\* matching rule of highest priority, the earliest of the list among equals.
C19_PriorityFirstOnly ==
    (Routed /\ call.config.strategy = "priority" /\ SomeRuleMatches) =>
        call.destinations =
            first_matching(sorted_by_priority(call.config.rules),
                           Matched(sorted_by_priority(call.config.rules)))

\* C20: with strategy all-matching the result is the destinations of exactly
\* the rules whose condition holds, each once, in configured order.
C20_AllMatchingInOrder ==
    (Routed /\ call.config.strategy = "all-matching" /\ SomeRuleMatches) =>
        call.destinations = matching(call.config.rules, Matched(call.config.rules))

\* the rules of a list whose condition can be evaluated without an exception
Evaluable(rules) ==
    SelectSeq(rules, LAMBDA rule :
        rule.condition = None \/ try_lookup(rule.condition, call.message) \notin Raised)

\* C21: when no rule's condition holds the result is the fallback destination
\* alone if one is configured and empty otherwise, and when some rule's
\* condition holds the fallback destination is not in the result.
C21_FallbackOnlyWhenNoMatch ==
    Routed =>
        /\ (~SomeRuleMatches /\ call.config.fallback # None) =>
                call.destinations = <<call.config.fallback>>
        /\ (~SomeRuleMatches /\ call.config.fallback = None) =>
                call.destinations = <<>>
        /\ SomeRuleMatches =>
                (\A n \in 1..Len(call.destinations) :
                    call.destinations[n] # FallbackDestination)

\* C22: evaluating the conditions of a routing call raises nothing, and a
\* rule whose condition names a missing path or a value without a truth
\* value counts as not matching: the result is the one of the same call
\* without those rules.
C22_ConditionNeverRaises ==
    /\ call.fn = "RouteMessage" =>
          /\ call.raised = None
          /\ call.destinations =
                route_all_by_priority(call.message,
                                      Evaluable(call.config.rules)).destinations
    /\ call.fn = "RouteMessage (shadowed)" =>
          /\ call.raised = None
          /\ call.destinations =
                route_by_strategy(call.message,
                    [call.config EXCEPT !.rules = Evaluable(call.config.rules)])

\* a call whose rule of higher priority names a missing path or reads a
\* value without a truth value, and whose other rule, without a condition,
\* still delivers
C22_Witness ==
    /\ call.fn = "RouteMessage"
    /\ Len(call.config.rules) = 2
    /\ call.config.rules[1].condition \in {"priority>5", "payload"}
    /\ call.config.rules[1].priority > call.config.rules[2].priority
    /\ call.config.rules[2].condition = None
    /\ call.destinations = <<call.config.rules[2].destination>>

C25_UnknownIdNoStatus ==
    [][\A response_id \in 1..(MaxStored + 1) :
          GetWebhookStatus(response_id) =>
              IF response_id \notin EventIds
              THEN /\ status_reply'.kind = "unknown"
                   /\ status_reply'.status = None
              ELSE /\ status_reply'.kind # "unknown"
                   /\ events[response_id].status \notin {"completed", "failed"} =>
                         /\ status_reply'.result = None
                         /\ status_reply'.error = events[response_id].error]_vars

\* the query of an unknown id was answered while an event with a stored
\* result was in the store
C25_Witness ==
    /\ status_reply.kind = "unknown"
    /\ status_reply.response_id \notin EventIds
    /\ \E i \in EventIds : i \in DOMAIN results

C26_TerminalAbsorbing ==
    [][\A i \in EventIds :
          Terminal(i) =>
              /\ events'[i].status = events[i].status
              /\ \A w \in Workers :
                    ~(WorkerInvokes(w) /\ wcur'[w].id = i)
              /\ \A r \in Retriers :
                    ~(RetrierInvokes(r) /\ rcur'[r].id = i)]_vars

\* C27: every attempt of the queue processor on an event leaves exactly one
\* audit record: the step that hands an event to its handler adds one record
\* to the audit log, and no other step adds any.
C27_AuditPerAttempt ==
    [][/\ \A w \in Workers :
            WorkerInvokes(w) => Len(audit') = Len(audit) + 1
       /\ Len(audit') # Len(audit) => \E w \in Workers : WorkerInvokes(w)]_vars

\* C28: in the statistics ProcessEventQueue.execute returns, processed is the
\* sum of succeeded, failed and retry_scheduled, and is at most the batch
\* size.
C28_StatsAddUp ==
    [][\A w \in Workers :
          (wpc[w] = "loop" /\ wpc'[w] = "idle") =>
              /\ wstats[w].processed =
                    wstats[w].succeeded + wstats[w].failed + wstats[w].retry_scheduled
              /\ wstats[w].processed <= MaxBatch]_vars

\* a stored event the cleanup must spare
Protected(event) ==
    \/ event.status = "pending"
    \/ event.retry_count \in 1..2
    \/ event.retain = "True"

CleanupRuns == call.fn \in {"cleanup", "CleanupExpiredEvents"}

\* C29: a cleanup run deletes no event that is pending, has a retry count of
\* 1 or 2 or carries a truthy "retain" field, its returned statistics count
\* every such expired event as retained, and the result of every event it
\* has deleted was deleted before.
C29_ProtectedEventsRetained ==
    CleanupRuns =>
        /\ \A i \in 1..Len(call.stored) :
              /\ Protected(call.stored[i]) => i \in call.kept
              /\ i \notin call.kept => i \notin call.with_result
        /\ call.fn = "CleanupExpiredEvents" =>
              call.stats.retained =
                Cardinality({i \in 1..Len(call.stored) :
                    call.stored[i].expired /\ Protected(call.stored[i])})

\* a finished run that met an expired, processed event without a "retain"
\* field whose retry count is 2, and retained it
C29_Witness ==
    /\ call.fn = "CleanupExpiredEvents"
    /\ call.stats.retained >= 1
    /\ \E i \in 1..Len(call.stored) :
          /\ call.stored[i].expired
          /\ call.stored[i].status = "completed"
          /\ call.stored[i].retain = None
          /\ call.stored[i].retry_count = 2
          /\ i \in call.kept

Executed == call.fn \in {"ExecuteAction", "ExecuteAction (shadowed)"}

\* the execution of the request's action was reached and did this
Execution(outcome) ==
    /\ get_action(call.request.action_id) # None
    /\ call.request.outcome = outcome
    /\ (call.fn = "ExecuteAction (shadowed)" => call.request.setup = "ok")

\* C30: a call for an existing action records exactly one outcome, a success
\* when the handler succeeds and a failure when it reports failure or raises;
\* when it raises the response is failed with an error that contains the
\* exception's message; a call for a missing action answers failed with
\* "Action not found" and records nothing.
C30_OneOutcomeRecorded ==
    Executed =>
        /\ get_action(call.request.action_id) = None =>
              /\ call.response.status = "failed"
              /\ call.response.error = <<"Action not found">>
              /\ call.recorded = <<>>
        /\ get_action(call.request.action_id) # None => Len(call.recorded) = 1
        /\ Execution("ok") => call.recorded[1].kind = "success"
        /\ Execution("fail") => call.recorded[1].kind = "failure"
        /\ Execution("raise") =>
              /\ call.recorded[1].kind = "failure"
              /\ call.response.status = "failed"
              /\ \E n \in 1..Len(call.response.error) :
                    call.response.error[n] = ErrorOf("raise")

====
